---- MODULE Spec2Model ----
(***************************************************************************)
(* Model of src/dxf_pipeline.py: the DXF analysis-and-export pipeline.     *)
(*                                                                         *)
(* Python's None is the empty tuple <<>>; an optional scalar v is <<v>>;   *)
(* a 3D point is a 3-tuple <<x, y, z>>.  A call that may raise returns a   *)
(* record whose field exc is "none" or the name of the exception class.    *)
(***************************************************************************)
EXTENDS Integers, Sequences, FiniteSets, TLC

VARIABLES
    pc,           \* position of main(): which statement runs next
    args,         \* the parsed command line (argparse.Namespace)
    doc,          \* the Drawing returned by load_doc, None before
    auditor,      \* second component of load_doc's result
    stats,        \* the dict returned by compute_stats, None before
    outdirExists, \* whether the output directory exists on disk
    files,        \* names of the files inside the output directory
    previewBy,    \* which backend wrote each preview file during this run
    outcome,      \* process outcome: None while running, else <<status>>
    uncaught,     \* class of the exception that left main(), "none" otherwise
    entered,      \* history: stages whose code was entered, in order
    failed,       \* history: stages in which an exception was raised
    log,          \* history: LOGGER messages that matter, in order
    call,         \* arguments of a resolve_page_size call
    ret           \* its result, None before the call

vars == <<pc, args, doc, auditor, stats, outdirExists, files, previewBy,
          outcome, uncaught, entered, failed, log, call, ret>>

None == <<>>

Some(v) == <<v>>

(***************************************************************************)
(* Bounds of the model.                                                    *)
(***************************************************************************)
MaxCoord == 1

MaxZ == 1

CoordStep == 6000

MaxEntities == 2

(***************************************************************************)
(* Program constants.                                                      *)
(***************************************************************************)
LargeExtent == 5000

InchesCode == 1

ISO_SIZES_MM ==
    [A0 |-> <<841, 1189>>, A1 |-> <<594, 841>>, A2 |-> <<420, 594>>,
     A3 |-> <<297, 420>>, A4 |-> <<210, 297>>]

(***************************************************************************)
(* Documents.  A Drawing is what the external reader hands back: the       *)
(* modelspace entities, the layer and block tables, the header variables   *)
(* that are present, and the outcome the fast bounding-box scan of the     *)
(* modelspace has on it.                                                   *)
(***************************************************************************)
Points == {<<x * CoordStep, y * CoordStep, z>> : x \in 0..MaxCoord, y \in 0..MaxCoord, z \in 0..MaxZ}

OptPoints == Points \cup {None}

LayerNames == {"0", "A"}

BlockNames == {"B1", "B2"}

NameOrder == <<"0", "A", "B1", "B2", "INSERT", "LINE">>

Entities ==
    [dxftype : {"LINE"}, layer : LayerNames, name : {""}]
        \cup [dxftype : {"INSERT"}, layer : LayerNames, name : BlockNames]

EntityLists == UNION {[1..n -> Entities] : n \in 0..MaxEntities}

\* The header holds only the variables that are present in the file.
HeaderOf(mn, mx, u) ==
    [k \in ((IF mn = None THEN {} ELSE {"$EXTMIN"})
             \cup (IF mx = None THEN {} ELSE {"$EXTMAX"})
             \cup (IF u = None THEN {} ELSE {"$INSUNITS"})) |->
        CASE k = "$EXTMIN" -> mn
          [] k = "$EXTMAX" -> mx
          [] OTHER -> u[1]]

\* Outcomes of bbox_extents(msp, fast=True): it raises, or returns a box
\* without data, or a box whose corners satisfy extmin <= extmax.
Scans ==
    {[kind |-> "raised", extmin |-> None, extmax |-> None],
     [kind |-> "nodata", extmin |-> None, extmax |-> None]}
        \cup {[kind |-> "data", extmin |-> p, extmax |-> q] :
                <<p, q>> \in {pq \in Points \X Points :
                                \A i \in 1..3 : pq[1][i] <= pq[2][i]}}

Document(es, ls, bs, h, s) ==
    [entities |-> es, layers |-> ls, blocks |-> bs, header |-> h, scan |-> s]

\* Documents that differ in their extent data.
ExtentDocuments ==
    {Document(<<>>, {"0"}, {}, HeaderOf(mn, mx, None), s) :
        mn \in OptPoints, mx \in OptPoints, s \in Scans}

\* Documents that differ in entities, tables and unit code.
TableDocuments ==
    {Document(es, {"0"} \cup ls, bs, HeaderOf(None, None, u),
              [kind |-> "data", extmin |-> <<0, 0, 0>>,
               extmax |-> <<CoordStep, 0, 0>>]) :
        es \in EntityLists, ls \in SUBSET LayerNames, bs \in SUBSET BlockNames,
        u \in {None, Some(0), Some(InchesCode)}}

Documents == ExtentDocuments \cup TableDocuments

(***************************************************************************)
(* safe_header_value, compute_extents, compute_stats                       *)
(***************************************************************************)
safe_header_value(d, key, default) ==
    IF key \in DOMAIN d.header THEN d.header[key] ELSE default

\* tuple(float(v) for v in p): the same three numbers, as floats.
FloatTuple(p) == <<p[1], p[2], p[3]>>

\* Variant: a missing header variable reads as the origin instead of None.
compute_extents_default_origin(d) ==
    LET box == d.scan
        gmin == IF box.kind = "data" THEN FloatTuple(box.extmin) ELSE None
        gmax == IF box.kind = "data" THEN FloatTuple(box.extmax) ELSE None
        fallback == gmin = None \/ gmax = None
        extmin == IF fallback THEN safe_header_value(d, "$EXTMIN", <<0, 0, 0>>)
                  ELSE gmin
        extmax == IF fallback THEN safe_header_value(d, "$EXTMAX", <<0, 0, 0>>)
                  ELSE gmax
    IN  [source |-> IF fallback THEN "header_EXTMIN_EXTMAX" ELSE "modelspace_bbox",
         extmin |-> extmin, extmax |-> extmax,
         size |-> <<extmax[1] - extmin[1], extmax[2] - extmin[2],
                    extmax[3] - extmin[3]>>,
         warned |-> box.kind = "raised",
         header_read |-> fallback]

\* Variant: each bound is taken from whichever source has it.
compute_extents_merging(d) ==
    LET box == d.scan
        gmin == IF box.kind = "data" THEN FloatTuple(box.extmin) ELSE None
        gmax == IF box.kind = "data" THEN FloatTuple(box.extmax) ELSE None
        hmin == safe_header_value(d, "$EXTMIN", None)
        hmax == safe_header_value(d, "$EXTMAX", None)
        extmin == IF gmin # None THEN gmin ELSE hmin
        extmax == IF hmax # None THEN hmax ELSE gmax
    IN  [source |-> "modelspace_bbox", extmin |-> extmin, extmax |-> extmax,
         size |-> IF extmin # None /\ extmax # None
                  THEN <<extmax[1] - extmin[1], extmax[2] - extmin[2],
                         extmax[3] - extmin[3]>>
                  ELSE None,
         warned |-> box.kind = "raised",
         header_read |-> TRUE]

\* Variant: the third component of size repeats the second.
compute_extents_size_slip(d) ==
    LET box == d.scan
        gmin == IF box.kind = "data" THEN FloatTuple(box.extmin) ELSE None
        gmax == IF box.kind = "data" THEN FloatTuple(box.extmax) ELSE None
        fallback == gmin = None \/ gmax = None
        hmin == safe_header_value(d, "$EXTMIN", None)
        hmax == safe_header_value(d, "$EXTMAX", None)
        extmin == IF fallback THEN hmin ELSE gmin
        extmax == IF fallback THEN hmax ELSE gmax
    IN  [source |-> IF fallback THEN "header_EXTMIN_EXTMAX" ELSE "modelspace_bbox",
         extmin |-> extmin, extmax |-> extmax,
         size |-> IF extmin # None /\ extmax # None
                  THEN <<extmax[1] - extmin[1], extmax[2] - extmin[2],
                         extmax[2] - extmin[2]>>
                  ELSE None,
         warned |-> box.kind = "raised",
         header_read |-> fallback]

\* The result dict, plus two history fields: warned (the scan raised and the
\* warning of line 109 was logged) and header_read (lines 112-113 ran).
compute_extents(d) ==
    LET box == d.scan
        \* lines 103-109
        gmin == IF box.kind = "data" THEN FloatTuple(box.extmin) ELSE None
        gmax == IF box.kind = "data" THEN FloatTuple(box.extmax) ELSE None
        \* line 110
        fallback == gmin = None \/ gmax = None
        \* lines 112-117
        hmin == safe_header_value(d, "$EXTMIN", None)
        hmax == safe_header_value(d, "$EXTMAX", None)
        extmin == IF fallback
                  THEN (IF hmin # None THEN FloatTuple(hmin) ELSE None)
                  ELSE gmin
        extmax == IF fallback
                  THEN (IF hmax # None THEN FloatTuple(hmax) ELSE None)
                  ELSE gmax
    IN  [source |-> IF fallback THEN "header_EXTMIN_EXTMAX" ELSE "modelspace_bbox",
         extmin |-> extmin, extmax |-> extmax,
         \* lines 118-124
         size |-> IF extmin # None /\ extmax # None
                  THEN <<extmax[1] - extmin[1], extmax[2] - extmin[2],
                         extmax[3] - extmin[3]>>
                  ELSE None,
         warned |-> box.kind = "raised",
         header_read |-> fallback]

Elements(seq) == {seq[i] : i \in 1..Len(seq)}

\* The Counter that results from "counter[k] += 1" for each k of keys.
Counter(keys) ==
    [k \in Elements(keys) |-> Cardinality({i \in 1..Len(keys) : keys[i] = k})]

RECURSIVE SumValues(_, _)
SumValues(f, keys) ==
    IF keys = {} THEN 0
    ELSE LET k == CHOOSE x \in keys : TRUE
         IN  f[k] + SumValues(f, keys \ {k})

\* sum(counter.values())
Total(f) == SumValues(f, DOMAIN f)

\* sorted(names): the names in lexicographic order.
Sorted(S) == SelectSeq(NameOrder, LAMBDA n : n \in S)

compute_stats(d) ==
    LET es == d.entities
        \* lines 134-139
        entity_counts == Counter([i \in 1..Len(es) |-> es[i].dxftype])
        layer_counts == Counter([i \in 1..Len(es) |-> es[i].layer])
        inserts == SelectSeq(es, LAMBDA e : e.dxftype = "INSERT")
        block_insert_counts ==
            Counter([i \in 1..Len(inserts) |-> inserts[i].name])
        \* lines 141-144
        extents == compute_extents(d)
        insunits == safe_header_value(d, "$INSUNITS", 0)
        width == IF extents.size # None THEN Some(extents.size[1]) ELSE None
        height == IF extents.size # None THEN Some(extents.size[2]) ELSE None
        Big(v) == v # None /\ v[1] # 0 /\ v[1] > LargeExtent
    IN  [insunits |-> insunits,
         extents |-> extents,
         \* line 153
         total_entities_modelspace |-> Total(entity_counts),
         entity_counts |-> entity_counts,
         layer_counts |-> layer_counts,
         \* lines 154-156
         layers |-> Sorted(d.layers),
         blocks |-> Sorted(d.blocks),
         insert_counts_by_block |->
            [n \in d.blocks |->
                IF n \in DOMAIN block_insert_counts
                THEN block_insert_counts[n] ELSE 0],
         \* history: the warning of lines 145-151 was logged
         units_warning |-> insunits = InchesCode /\ (Big(width) \/ Big(height))]

(***************************************************************************)
(* resolve_page_size                                                       *)
(***************************************************************************)
PageNames == {"A0", "A1", "A2", "A3", "A4", "a4", "Z9"}

Orientations == {"auto", "portrait", "landscape"}

\* str.upper() on the page names of the model.
Upper(page) == IF page = "a4" THEN "A4" ELSE page

Raised(cls) == [exc |-> cls, w |-> 0, h |-> 0]

\* Variant: a square drawing is laid out portrait.
resolve_page_size_strict(page, orientation, bbox_size) ==
    IF Upper(page) \notin DOMAIN ISO_SIZES_MM THEN Raised("ValueError")
    ELSE LET base_size == ISO_SIZES_MM[Upper(page)]
             effective ==
                IF orientation = "auto" /\ bbox_size # None
                THEN (IF bbox_size[1] > bbox_size[2]
                      THEN "landscape" ELSE "portrait")
                ELSE orientation
         IN  IF effective = "landscape"
             THEN [exc |-> "none", w |-> base_size[2], h |-> base_size[1]]
             ELSE [exc |-> "none", w |-> base_size[1], h |-> base_size[2]]

\* Variant: an unknown page name falls back to A4 instead of raising.
resolve_page_size_default_a4(page, orientation, bbox_size) ==
    LET base_size == IF Upper(page) \in DOMAIN ISO_SIZES_MM
                     THEN ISO_SIZES_MM[Upper(page)] ELSE ISO_SIZES_MM["A4"]
        effective ==
            IF orientation = "auto" /\ bbox_size # None
            THEN (IF bbox_size[1] >= bbox_size[2]
                  THEN "landscape" ELSE "portrait")
            ELSE orientation
    IN  IF effective = "landscape"
        THEN [exc |-> "none", w |-> base_size[2], h |-> base_size[1]]
        ELSE [exc |-> "none", w |-> base_size[1], h |-> base_size[2]]

resolve_page_size(page, orientation, bbox_size) ==
    \* lines 196-198
    IF Upper(page) \notin DOMAIN ISO_SIZES_MM THEN Raised("ValueError")
    ELSE LET base_size == ISO_SIZES_MM[Upper(page)]
             \* lines 200-201: a 3-tuple is truthy, None is not
             effective ==
                IF orientation = "auto" /\ bbox_size # None
                THEN (IF bbox_size[1] >= bbox_size[2]
                      THEN "landscape" ELSE "portrait")
                ELSE orientation
         IN  \* lines 202-204
             IF effective = "landscape"
             THEN [exc |-> "none", w |-> base_size[2], h |-> base_size[1]]
             ELSE [exc |-> "none", w |-> base_size[1], h |-> base_size[2]]

(***************************************************************************)
(* Specifications of the pure functions: the inputs are drawn by Init and  *)
(* one action applies the function.                                        *)
(***************************************************************************)
Idle ==
    /\ args = None /\ auditor = None
    /\ outdirExists = FALSE /\ files = {} /\ previewBy = None
    /\ outcome = None /\ uncaught = "none" /\ entered = <<>> /\ failed = {}
    /\ log = <<>>

InitStats ==
    /\ Idle
    /\ pc = "compute_stats"
    /\ doc \in Documents
    /\ stats = None
    /\ call = None /\ ret = None

ComputeStats ==
    /\ pc = "compute_stats"
    /\ stats' = compute_stats(doc)
    /\ pc' = "returned"
    /\ UNCHANGED <<args, doc, auditor, outdirExists, files, previewBy, outcome,
                   uncaught, entered, failed, log, call, ret>>

NextStats == ComputeStats

SpecStats == InitStats /\ [][NextStats]_vars

\* The bbox_size values main() can pass on: the size of some extents, or None.
BBoxSizes == {compute_extents(d).size : d \in ExtentDocuments}

InitPage ==
    /\ Idle
    /\ pc = "resolve_page_size"
    /\ doc = None /\ stats = None
    /\ call \in [page : PageNames, orientation : Orientations,
                 bbox_size : BBoxSizes]
    /\ ret = None

ResolvePage ==
    /\ pc = "resolve_page_size"
    /\ ret' = resolve_page_size(call.page, call.orientation, call.bbox_size)
    /\ pc' = "returned"
    /\ UNCHANGED <<args, doc, auditor, stats, outdirExists, files, previewBy,
                   outcome, uncaught, entered, failed, log, call>>

NextPage == ResolvePage

SpecPage == InitPage /\ [][NextPage]_vars

(***************************************************************************)
(* Preview export: render_with_pymupdf, render_with_matplotlib,            *)
(* export_previews.  What the rendering libraries do is the environment:   *)
(* whether the imports succeed, and where (if anywhere) rendering raises   *)
(* and with which class of exception.                                      *)
(***************************************************************************)
Formats == <<"pdf", "png", "svg">>

FormatSet == {"pdf", "png", "svg"}

FormatIndex(f) == CHOOSE i \in 1..3 : Formats[i] = f

NoPreviews == [f \in FormatSet |-> "none"]

PreviewFile(f) ==
    CASE f = "pdf" -> "preview_modelspace.pdf"
      [] f = "png" -> "preview_modelspace.png"
      [] f = "svg" -> "preview_modelspace.svg"

Requested(opts) == {f \in FormatSet : opts[f]}

PrimaryEnvs ==
    [import_ok : BOOLEAN, fail_at : {"none", "render"} \cup FormatSet,
     fail_exc : {"RuntimeError", "Exception"}]

SecondaryEnvs ==
    [import_ok : BOOLEAN, fail_at : {"none"} \cup FormatSet,
     fail_exc : {"RuntimeError", "Exception"}]

\* Variant: the "if preview_opts.<format>" guards are missing.
WriteFormats_unguarded(opts, env) ==
    [exc |-> IF env.fail_at \in FormatSet THEN env.fail_exc ELSE "none",
     written |-> {f \in FormatSet :
                    env.fail_at \notin FormatSet
                        \/ FormatIndex(f) < FormatIndex(env.fail_at)}]

\* The "if opts.pdf: ... if opts.png: ... if opts.svg: ..." tail of both
\* renderers: the requested formats are written in order until one raises.
WriteFormats(opts, env) ==
    LET stops == env.fail_at \in Requested(opts)
    IN  [exc |-> IF stops THEN env.fail_exc ELSE "none",
         written |-> {f \in Requested(opts) :
                        ~stops \/ FormatIndex(f) < FormatIndex(env.fail_at)}]

\* Result: the exception raised, the formats written, and whether the page
\* size was resolved (history).
render_with_pymupdf(opts, bbox_size, env) ==
    LET page == resolve_page_size(opts.page, opts.orientation, bbox_size)
        w == WriteFormats(opts, env)
    IN  \* lines 223-228
        IF ~env.import_ok
        THEN [exc |-> "RuntimeError", written |-> {}, resolved |-> FALSE]
        \* lines 230-232
        ELSE IF page.exc # "none"
        THEN [exc |-> page.exc, written |-> {}, resolved |-> TRUE]
        \* lines 242-246
        ELSE IF env.fail_at = "render"
        THEN [exc |-> env.fail_exc, written |-> {}, resolved |-> TRUE]
        \* lines 248-260
        ELSE [exc |-> w.exc, written |-> w.written, resolved |-> TRUE]

render_with_matplotlib(opts, bbox_size, env) ==
    LET page == resolve_page_size(opts.page, opts.orientation, bbox_size)
        w == WriteFormats(opts, env)
    IN  \* lines 270-274
        IF ~env.import_ok
        THEN [exc |-> "RuntimeError", written |-> {}, resolved |-> FALSE]
        \* line 276
        ELSE IF page.exc # "none"
        THEN [exc |-> page.exc, written |-> {}, resolved |-> TRUE]
        \* lines 282-317
        ELSE [exc |-> w.exc, written |-> w.written, resolved |-> TRUE]

\* Variant: the early return of lines 327-329 is missing.
export_previews_no_early_return(opts, bbox_size, penv, senv) ==
    LET r1 == render_with_pymupdf(opts, bbox_size, penv)
        r2 == render_with_matplotlib(opts, bbox_size, senv)
        retry == r1.exc = "RuntimeError"
    IN  [exc |-> IF retry THEN r2.exc ELSE r1.exc,
         mkdir |-> TRUE,
         backends |-> IF retry THEN <<"pymupdf", "matplotlib">>
                      ELSE <<"pymupdf">>,
         by |-> [f \in FormatSet |->
                   IF retry /\ f \in r2.written THEN "matplotlib"
                   ELSE IF f \in r1.written THEN "pymupdf"
                   ELSE "none"],
         writers |-> (IF r1.written # {} THEN {"pymupdf"} ELSE {})
                       \cup (IF retry /\ r2.written # {}
                             THEN {"matplotlib"} ELSE {}),
         resolved |-> r1.resolved \/ (retry /\ r2.resolved)]

\* Result: the exception that leaves export_previews, whether outdir.mkdir
\* ran, which backends were called, who wrote each file last, which
\* backends wrote any file, and whether a page size was resolved.
export_previews(opts, bbox_size, penv, senv) ==
    LET r1 == render_with_pymupdf(opts, bbox_size, penv)
        r2 == render_with_matplotlib(opts, bbox_size, senv)
        retry == r1.exc = "RuntimeError"
    IN  \* lines 327-329
        IF Requested(opts) = {}
        THEN [exc |-> "none", mkdir |-> FALSE, backends |-> <<>>,
              by |-> NoPreviews, writers |-> {}, resolved |-> FALSE]
        \* lines 330-335
        ELSE [exc |-> IF retry THEN r2.exc ELSE r1.exc,
              mkdir |-> TRUE,
              backends |-> IF retry THEN <<"pymupdf", "matplotlib">>
                           ELSE <<"pymupdf">>,
              by |-> [f \in FormatSet |->
                        IF retry /\ f \in r2.written THEN "matplotlib"
                        ELSE IF f \in r1.written THEN "pymupdf"
                        ELSE "none"],
              writers |-> (IF r1.written # {} THEN {"pymupdf"} ELSE {})
                            \cup (IF retry /\ r2.written # {}
                                  THEN {"matplotlib"} ELSE {}),
              resolved |-> r1.resolved \/ (retry /\ r2.resolved)]

(***************************************************************************)
(* Specification of one export_previews call: the options, the bbox_size   *)
(* and the behaviour of the two rendering libraries are drawn by Init.     *)
(***************************************************************************)
PreviewOptionSets ==
    [pdf : BOOLEAN, png : BOOLEAN, svg : BOOLEAN,
     page : {"A3", "a4", "Z9"}, orientation : {"auto", "landscape"}]

PreviewBBoxes == {None, <<CoordStep, 0, 0>>}

InitPreview ==
    /\ Idle
    /\ pc = "export_previews"
    /\ doc = None /\ stats = None
    /\ call \in [opts : PreviewOptionSets, bbox_size : PreviewBBoxes,
                 penv : PrimaryEnvs, senv : SecondaryEnvs]
    /\ ret = None

ExportPreviews ==
    /\ pc = "export_previews"
    /\ LET r == export_previews(call.opts, call.bbox_size, call.penv,
                                call.senv)
       IN  /\ ret' = r
           /\ outdirExists' = (outdirExists \/ r.mkdir)
           /\ files' = files \cup
                  {PreviewFile(f) : f \in {g \in FormatSet : r.by[g] # "none"}}
    /\ pc' = "returned"
    /\ UNCHANGED <<args, doc, auditor, stats, previewBy, outcome, uncaught,
                   entered, failed, log, call>>

NextPreview == ExportPreviews

SpecPreview == InitPreview /\ [][NextPreview]_vars

(***************************************************************************)
(* External conversion: find_oda_converter, export_dwg.                    *)
(***************************************************************************)

(***************************************************************************)
(* The scale and fit-to-page options of one export_previews call.          *)
(***************************************************************************)
\* --scale is a float or None (line 443); 0 and 2 stand for its values.
Scales == {None, Some(0), Some(2)}

RenderOptionSets ==
    [pdf : BOOLEAN, png : {FALSE}, svg : BOOLEAN, page : {"A3"},
     orientation : {"auto"}, fit_page : BOOLEAN, scale : Scales]

\* drawing_layout.Settings(...), lines 233-237: `scale or 1.0` is 1.0 for
\* None and for 0.0.
Settings(opts) ==
    [fit_page |-> IF opts.scale = None THEN opts.fit_page ELSE FALSE,
     scale |-> IF opts.scale = None \/ opts.scale[1] = 0 THEN 1
               ELSE opts.scale[1],
     crop_at_margins |-> TRUE]

\* The scale and fit settings the backend that rendered last was given:
\* render_with_pymupdf passes Settings to get_replay (line 246);
\* render_with_matplotlib passes qsave bg, fg, dpi, size_inches and config
\* (lines 284-292), so neither option reaches it (None).
AppliedSettings(opts, backends) ==
    IF backends = <<>> THEN None
    ELSE IF backends[Len(backends)] = "pymupdf" THEN Settings(opts)
    ELSE None

InitRender ==
    /\ Idle
    /\ pc = "render_previews"
    /\ doc = None /\ stats = None
    /\ call \in [opts : RenderOptionSets, bbox_size : {None},
                 penv : PrimaryEnvs, senv : SecondaryEnvs]
    /\ ret = None

RenderPreviews ==
    /\ pc = "render_previews"
    /\ LET r == export_previews(call.opts, call.bbox_size, call.penv,
                                call.senv)
       IN  /\ ret' = [result |-> r,
                      applied |-> AppliedSettings(call.opts, r.backends)]
           /\ outdirExists' = (outdirExists \/ r.mkdir)
           /\ files' = files \cup
                  {PreviewFile(f) : f \in {g \in FormatSet : r.by[g] # "none"}}
    /\ pc' = "rendered"
    /\ UNCHANGED <<args, doc, auditor, stats, previewBy, outcome, uncaught,
                   entered, failed, log, call>>

NextRender == RenderPreviews

SpecRender == InitRender /\ [][NextRender]_vars

\* ------------------------------------------------------------------------
\* export_units_fix, lines 358-363.  The environment of a call: doc.copy()
\* returns an independent copy or raises (the method may be missing from the
\* installed library), and saveas() writes the file or raises.
UnitsEnvs == [copy : {"ok", "AttributeError"}, save : {"ok", "OSError"}]

\* fixed.header["$INSUNITS"] = insunits
SetHeader(h, key, value) ==
    [k \in DOMAIN h \cup {key} |-> IF k = key THEN value ELSE h[k]]

\* The units fix that sets the header of the caller's document and saves it.
export_units_fix_in_place(d, insunits, env) ==
    LET fixed == [d EXCEPT !.header = SetHeader(d.header, "$INSUNITS", insunits)]
    IN  [exc |-> env.save, original |-> fixed, fixed |-> fixed,
         file |-> env.save = "ok"]

\* Returns the exception that leaves the call, the caller's document after
\* the call, the copy (None when none was made) and whether the file
\* cleaned_units_fix.dxf was written (with the copy's content).
export_units_fix(d, insunits, env) ==
    IF env.copy # "ok"
    THEN [exc |-> env.copy, original |-> d, fixed |-> None, file |-> FALSE]
    ELSE LET fixed == [d EXCEPT
                         !.header = SetHeader(d.header, "$INSUNITS", insunits)]
         IN  IF env.save # "ok"
             THEN [exc |-> env.save, original |-> d, fixed |-> fixed,
                   file |-> FALSE]
             ELSE [exc |-> "none", original |-> d, fixed |-> fixed,
                   file |-> TRUE]

\* A call of export_units_fix on a loaded document.
UnitOverrides == {0, InchesCode, 4}

InitUnits ==
    /\ Idle
    /\ pc = "export_units_fix"
    /\ call \in [doc : TableDocuments, insunits : UnitOverrides,
                 env : UnitsEnvs]
    /\ doc = call.doc
    /\ stats = None
    /\ ret = None

ExportUnitsFix ==
    /\ pc = "export_units_fix"
    /\ LET r == export_units_fix(doc, call.insunits, call.env)
       IN  /\ ret' = r
           /\ doc' = r.original
           /\ files' = IF r.file THEN files \cup {"cleaned_units_fix.dxf"}
                       ELSE files
    /\ pc' = "units_returned"
    /\ UNCHANGED <<args, auditor, stats, outdirExists, previewBy, outcome,
                   uncaught, entered, failed, log, call>>

NextUnits == ExportUnitsFix

SpecUnits == InitUnits /\ [][NextUnits]_vars


Candidates == 1..3

\* The lookup that keeps the last candidate path that exists.
find_oda_converter_last(existing) ==
    IF existing = {} THEN None
    ELSE Some(CHOOSE c \in existing : \A o \in existing : c >= o)

\* The first candidate path that exists, None when there is none.
find_oda_converter(existing) ==
    IF existing = {} THEN None
    ELSE Some(CHOOSE c \in existing : \A o \in existing : c <= o)

RunOutcomes == {"exit0_file", "exit0_nofile", "nonzero", "oserror"}

export_dwg(existing, run) ==
    LET converter == find_oda_converter(existing)
    IN  \* lines 380-384
        IF converter = None
        THEN [exc |-> "none", mkdir |-> FALSE, ran |-> None, file |-> FALSE,
              message |-> "warning: converter not found"]
        \* lines 399-406
        ELSE [exc |-> IF run = "oserror" THEN "OSError" ELSE "none",
              mkdir |-> TRUE, ran |-> converter,
              file |-> run = "exit0_file",
              message |->
                CASE run = "exit0_file" -> "info: DWG exported"
                  [] run = "exit0_nofile" -> "warning: output did not appear"
                  [] run = "nonzero" -> "warning: converter failed"
                  [] OTHER -> ""]

(***************************************************************************)
(* main(): one action per statement that calls into a stage.               *)
(***************************************************************************)
UnitCodes == {4}

PipelinePages == {"A3"}

Namespaces ==
    [input_exists : BOOLEAN, pdf : BOOLEAN, png : BOOLEAN, svg : BOOLEAN,
     page : PipelinePages, orientation : Orientations,
     export_flattened_dxf : BOOLEAN,
     set_insunits : {None} \cup {Some(u) : u \in UnitCodes},
     export_dwg : BOOLEAN]

\* The drawings the input file can hold in a pipeline run.
PipelineDocuments ==
    {Document(<<[dxftype |-> "LINE", layer |-> "A", name |-> ""]>>, {"0"}, {},
              HeaderOf(None, None, Some(InchesCode)),
              [kind |-> "data", extmin |-> <<0, 0, 0>>,
               extmax |-> <<CoordStep, 0, 0>>]),
     Document(<<>>, {"0"}, {"B1"}, HeaderOf(None, None, None),
              [kind |-> "nodata", extmin |-> None, extmax |-> None])}

ReportFiles ==
    <<"summary.json", "entities_by_type.csv", "entities_by_layer.csv",
      "blocks_by_insert.csv">>

\* A call of export_dwg: outdir may exist already and may hold the reports.
InitDwg ==
    /\ pc = "export_dwg"
    /\ call \in [existing : SUBSET Candidates, run : RunOutcomes,
                 outdir : BOOLEAN, reports : BOOLEAN]
    /\ outdirExists = call.outdir
    /\ files = IF call.outdir /\ call.reports THEN Elements(ReportFiles)
               ELSE {}
    /\ args = None /\ doc = None /\ auditor = None /\ stats = None
    /\ previewBy = None /\ outcome = None /\ uncaught = "none"
    /\ entered = <<>> /\ failed = {} /\ log = <<>>
    /\ ret = None

ExportDwg ==
    /\ pc = "export_dwg"
    /\ LET r == export_dwg(call.existing, call.run)
       IN  /\ ret' = r
           /\ outdirExists' = (outdirExists \/ r.mkdir)
           /\ files' = IF r.file THEN files \cup {"exported.dwg"} ELSE files
           /\ log' = IF r.message = "" THEN log ELSE Append(log, r.message)
    /\ pc' = "dwg_returned"
    /\ UNCHANGED <<args, doc, auditor, stats, previewBy, outcome, uncaught,
                   entered, failed, call>>

NextDwg == ExportDwg

SpecDwg == InitDwg /\ [][NextDwg]_vars

StageOrder ==
    <<"Load", "Stats/Report", "Preview", "Flatten", "UnitsFix",
      "ExternalFormat">>

Init ==
    /\ pc = "start"
    /\ args \in Namespaces
    /\ doc = None /\ auditor = None /\ stats = None
    /\ outdirExists = FALSE /\ files = {} /\ previewBy = NoPreviews
    /\ outcome = None /\ uncaught = "none"
    /\ entered = <<>> /\ failed = {} /\ log = <<>>
    /\ call = None /\ ret = None

\* An exception leaves main(): the interpreter prints the traceback and the
\* process ends with status 1.
Abort(stage, cls) ==
    /\ pc' = "aborted"
    /\ uncaught' = cls
    /\ outcome' = Some(1)
    /\ failed' = failed \cup {stage}

\* Variant: mkdir without exist_ok, which raises when outdir exists already.
Start_mkdir_exclusive ==
    /\ pc = "start"
    /\ IF ~args.input_exists
       THEN /\ log' = Append(log, "error: input not found")
            /\ outcome' = Some(1)
            /\ pc' = "done"
            /\ UNCHANGED <<outdirExists, uncaught>>
       ELSE IF outdirExists
            THEN /\ pc' = "aborted"
                 /\ uncaught' = "FileExistsError"
                 /\ outcome' = Some(1)
                 /\ UNCHANGED <<log, outdirExists>>
            ELSE /\ outdirExists' = TRUE
                 /\ pc' = "recover"
                 /\ UNCHANGED <<log, outcome, uncaught>>
    /\ UNCHANGED <<args, doc, auditor, stats, files, previewBy, entered,
                   failed, call, ret>>

\* Variant: the output directory is created before the input is checked.
Start_mkdir_first ==
    /\ pc = "start"
    /\ outdirExists' = TRUE
    /\ IF ~args.input_exists
       THEN /\ log' = Append(log, "error: input not found")
            /\ outcome' = Some(1)
            /\ pc' = "done"
       ELSE /\ pc' = "recover"
            /\ UNCHANGED <<log, outcome>>
    /\ UNCHANGED <<args, doc, auditor, stats, files, previewBy, uncaught,
                   entered, failed, call, ret>>

\* lines 477-487
Start ==
    /\ pc = "start"
    /\ IF ~args.input_exists
       THEN /\ log' = Append(log, "error: input not found")
            /\ outcome' = Some(1)
            /\ pc' = "done"
            /\ UNCHANGED outdirExists
       ELSE /\ outdirExists' = TRUE
            /\ pc' = "recover"
            /\ UNCHANGED <<log, outcome>>
    /\ UNCHANGED <<args, doc, auditor, stats, files, previewBy, uncaught,
                   entered, failed, call, ret>>

\* line 489, load_doc lines 71-74 and 78-82
LoadRecover ==
    /\ pc = "recover"
    /\ entered' = Append(entered, "Load")
    /\ \E ok \in BOOLEAN, d \in PipelineDocuments, errors \in 0..1 :
         IF ok
         THEN /\ doc' = d
              /\ auditor' = Some(errors)
              /\ log' = IF errors > 0
                        THEN Append(log, "warning: recover found problems")
                        ELSE log
              /\ pc' = "audit"
         ELSE /\ log' = Append(log, "warning: recover failed")
              /\ pc' = "readfile"
              /\ UNCHANGED <<doc, auditor>>
    /\ UNCHANGED <<args, stats, outdirExists, files, previewBy, outcome,
                   uncaught, failed, call, ret>>

\* Variant: a failed direct read is swallowed and main() returns 0.
LoadReadfile_swallowed ==
    /\ pc = "readfile"
    /\ \E ok \in BOOLEAN, d \in PipelineDocuments :
         IF ok
         THEN /\ doc' = d
              /\ auditor' = None
              /\ pc' = "audit"
              /\ UNCHANGED <<outcome, uncaught, failed>>
         ELSE /\ pc' = "done"
              /\ outcome' = Some(0)
              /\ failed' = failed \cup {"Load"}
              /\ UNCHANGED <<doc, auditor, uncaught>>
    /\ UNCHANGED <<args, stats, outdirExists, files, previewBy, entered, log,
                   call, ret>>

\* load_doc lines 75-77
LoadReadfile ==
    /\ pc = "readfile"
    /\ \E ok \in BOOLEAN, d \in PipelineDocuments :
         IF ok
         THEN /\ doc' = d
              /\ auditor' = None
              /\ pc' = "audit"
              /\ UNCHANGED <<outcome, uncaught, failed>>
         ELSE /\ Abort("Load", "DXFError")
              /\ UNCHANGED <<doc, auditor>>
    /\ UNCHANGED <<args, stats, outdirExists, files, previewBy, entered, log,
                   call, ret>>

\* Variant: an audit pass that raises ends the run as a failed load.
LoadAudit_fatal ==
    /\ pc = "audit"
    /\ \E result \in {"clean", "errors", "raised"} :
         IF result = "raised"
         THEN /\ Abort("Load", "Exception")
              /\ log' = Append(log, "warning: audit failed")
         ELSE /\ log' = IF result = "errors"
                        THEN Append(log, "warning: audit found problems")
                        ELSE log
              /\ pc' = "stats"
              /\ UNCHANGED <<outcome, uncaught, failed>>
    /\ UNCHANGED <<args, doc, auditor, stats, outdirExists, files, previewBy,
                   entered, call, ret>>

\* load_doc lines 83-89
LoadAudit ==
    /\ pc = "audit"
    /\ \E result \in {"clean", "errors", "raised"} :
         log' = CASE result = "clean" -> log
                  [] result = "errors" ->
                        Append(log, "warning: audit found problems")
                  [] OTHER -> Append(log, "warning: audit failed")
    /\ pc' = "stats"
    /\ UNCHANGED <<args, doc, auditor, stats, outdirExists, files, previewBy,
                   outcome, uncaught, entered, failed, call, ret>>

\* line 490
Stats ==
    /\ pc = "stats"
    /\ entered' = Append(entered, "Stats/Report")
    /\ \E ok \in BOOLEAN :
         IF ok
         THEN /\ stats' = compute_stats(doc)
              /\ pc' = "report"
              /\ UNCHANGED <<outcome, uncaught, failed>>
         ELSE /\ Abort("Stats/Report", "Exception")
              /\ UNCHANGED stats
    /\ UNCHANGED <<args, doc, auditor, outdirExists, files, previewBy, log,
                   call, ret>>

\* line 491, write_reports lines 173-192: the four files are written in
\* order; n of them are complete when an I/O error stops the writer.
Report ==
    /\ pc = "report"
    /\ \E n \in 0..Len(ReportFiles) :
         /\ files' = files \cup {ReportFiles[i] : i \in 1..n}
         /\ IF n = Len(ReportFiles)
            THEN /\ pc' = "preview"
                 /\ UNCHANGED <<outcome, uncaught, failed>>
            ELSE Abort("Stats/Report", "OSError")
    /\ UNCHANGED <<args, doc, auditor, stats, outdirExists, previewBy, entered,
                   log, call, ret>>

\* lines 493-508
Preview ==
    /\ pc = "preview"
    /\ entered' = Append(entered, "Preview")
    /\ \E penv \in PrimaryEnvs, senv \in SecondaryEnvs :
         LET r == export_previews(args, stats.extents.size, penv, senv)
         IN  /\ previewBy' = r.by
             /\ files' = files \cup
                    {PreviewFile(f) : f \in {g \in FormatSet : r.by[g] # "none"}}
             /\ IF r.exc # "none"
                THEN /\ log' = Append(log, "error: previews failed")
                     /\ failed' = failed \cup {"Preview"}
                ELSE UNCHANGED <<log, failed>>
    /\ pc' = "flatten"
    /\ UNCHANGED <<args, doc, auditor, stats, outdirExists, outcome, uncaught,
                   call, ret>>

\* Variant: after flattening, control goes back to the preview export.
Flatten_back_to_preview ==
    /\ pc = "flatten"
    /\ IF args.export_flattened_dxf
       THEN /\ entered' = Append(entered, "Flatten")
            /\ files' = files \cup {"flattened.dxf"}
            /\ pc' = "preview"
       ELSE /\ pc' = "unitsfix"
            /\ UNCHANGED <<entered, files>>
    /\ UNCHANGED <<args, doc, auditor, stats, outdirExists, previewBy, outcome,
                   uncaught, failed, log, call, ret>>

\* lines 510-514
Flatten ==
    /\ pc = "flatten"
    /\ IF args.export_flattened_dxf
       THEN /\ entered' = Append(entered, "Flatten")
            /\ \E ok \in BOOLEAN :
                 IF ok
                 THEN /\ files' = files \cup {"flattened.dxf"}
                      /\ UNCHANGED <<log, failed>>
                 ELSE /\ log' = Append(log, "error: flatten failed")
                      /\ failed' = failed \cup {"Flatten"}
                      /\ UNCHANGED files
       ELSE UNCHANGED <<entered, files, log, failed>>
    /\ pc' = "unitsfix"
    /\ UNCHANGED <<args, doc, auditor, stats, outdirExists, previewBy, outcome,
                   uncaught, call, ret>>

\* lines 516-520
UnitsFix ==
    /\ pc = "unitsfix"
    /\ IF args.set_insunits # None
       THEN /\ entered' = Append(entered, "UnitsFix")
            /\ \E env \in UnitsEnvs :
                 LET r == export_units_fix(doc, args.set_insunits[1], env)
                 IN  /\ doc' = r.original
                     /\ IF r.exc = "none"
                        THEN /\ files' = files \cup {"cleaned_units_fix.dxf"}
                             /\ UNCHANGED <<log, failed>>
                        ELSE /\ log' = Append(log, "error: units fix failed")
                             /\ failed' = failed \cup {"UnitsFix"}
                             /\ UNCHANGED files
       ELSE UNCHANGED <<doc, entered, files, log, failed>>
    /\ pc' = "dwg"
    /\ UNCHANGED <<args, auditor, stats, outdirExists, previewBy, outcome,
                   uncaught, call, ret>>

\* lines 522-526
Dwg ==
    /\ pc = "dwg"
    /\ IF args.export_dwg
       THEN /\ entered' = Append(entered, "ExternalFormat")
            /\ \E existing \in SUBSET Candidates, run \in RunOutcomes :
                 LET r == export_dwg(existing, run)
                 IN  /\ files' = IF r.file THEN files \cup {"exported.dwg"}
                                 ELSE files
                     /\ IF r.exc # "none"
                        THEN /\ log' = Append(log, "error: dwg failed")
                             /\ failed' = failed \cup {"ExternalFormat"}
                        ELSE /\ log' = Append(log, r.message)
                             /\ UNCHANGED failed
       ELSE UNCHANGED <<entered, files, log, failed>>
    /\ pc' = "finish"
    /\ UNCHANGED <<args, doc, auditor, stats, outdirExists, previewBy, outcome,
                   uncaught, call, ret>>

\* lines 528-529
Finish ==
    /\ pc = "finish"
    /\ outcome' = Some(0)
    /\ pc' = "done"
    /\ UNCHANGED <<args, doc, auditor, stats, outdirExists, files, previewBy,
                   uncaught, entered, failed, log, call, ret>>

Next ==
    \/ Start
    \/ LoadRecover
    \/ LoadReadfile
    \/ LoadAudit
    \/ Stats
    \/ Report
    \/ Preview
    \/ Flatten
    \/ UnitsFix
    \/ Dwg
    \/ Finish

Spec == Init /\ [][Next]_vars

(***************************************************************************)
(* Runs of main() one after the other into the same output directory       *)
(* (no --timestamped-outdir): the directory and its files stay, everything *)
(* else starts afresh.                                                     *)
(***************************************************************************)
Finished == pc \in {"done", "aborted"}

IsPrefix(s, t) == Len(s) <= Len(t) /\ SubSeq(t, 1, Len(s)) = s

\* What a finished run leaves to compare the next run with.
Snapshot ==
    [outcome |-> outcome, files |-> files, log |-> log, failed |-> failed,
     previewBy |-> previewBy, doc |-> doc, auditor |-> auditor,
     stats |-> stats]

\* The second run, with the same command line.
Rerun ==
    /\ Finished
    /\ call = None
    /\ call' = Snapshot
    /\ pc' = "start"
    /\ doc' = None /\ auditor' = None /\ stats' = None
    /\ previewBy' = NoPreviews
    /\ outcome' = None /\ uncaught' = "none"
    /\ entered' = <<>> /\ failed' = {} /\ log' = <<>>
    /\ UNCHANGED <<args, outdirExists, files, ret>>

\* The same input and environment in the second run: the file reads as the
\* same document, and no library call fails, warns or renders otherwise
\* than it did in the first run.
Replay ==
    call # None =>
        /\ doc' \in {None, call.doc}
        /\ auditor' \in {None, call.auditor}
        /\ stats' \in {None, call.stats}
        /\ previewBy' \in {NoPreviews, call.previewBy}
        /\ failed' \subseteq call.failed
        /\ IsPrefix(log', call.log)

NextRerun ==
    \/ Rerun
    \/ (Next /\ Replay)

\* The command lines of the runs that are repeated.
RunArgs ==
    {a \in Namespaces : a.input_exists /\ ~a.pdf /\ ~a.png
                        /\ a.orientation = "auto"}

InitRuns == Init /\ args \in RunArgs

SpecRerun == InitRuns /\ [][NextRerun]_vars

\* The second run, with another command line.
Again ==
    /\ Finished
    /\ call = None
    /\ call' = Some("again")
    /\ \E a \in RunArgs : args' = a
    /\ pc' = "start"
    /\ doc' = None /\ auditor' = None /\ stats' = None
    /\ previewBy' = NoPreviews
    /\ outcome' = None /\ uncaught' = "none"
    /\ entered' = <<>> /\ failed' = {} /\ log' = <<>>
    /\ UNCHANGED <<outdirExists, files, ret>>

NextRuns == Again \/ Next

SpecRuns == InitRuns /\ [][NextRuns]_vars

(***************************************************************************)
(* The command line in front of main(): parse_args admits only the page    *)
(* names of ISO_SIZES_MM (choices=...) and ends the process with status 2  *)
(* on any other name.  SpecCli is main() from the raw command line on,     *)
(* together with direct calls of export_previews.                          *)
(***************************************************************************)
ArgvPages == {"A3", "a4", "Z9"}

CommandLines ==
    [input_exists : BOOLEAN, pdf : BOOLEAN, png : BOOLEAN, svg : BOOLEAN,
     page : ArgvPages, orientation : {"auto"},
     export_flattened_dxf : BOOLEAN,
     set_insunits : {None} \cup {Some(u) : u \in UnitCodes},
     export_dwg : BOOLEAN]

InitCli ==
    \/ /\ pc = "parse_args"
       /\ args \in CommandLines
       /\ doc = None /\ auditor = None /\ stats = None
       /\ outdirExists = FALSE /\ files = {} /\ previewBy = NoPreviews
       /\ outcome = None /\ uncaught = "none"
       /\ entered = <<>> /\ failed = {} /\ log = <<>>
       /\ call = None /\ ret = None
    \/ InitPreview

\* lines 433 and 474: argparse rejects a --page value outside choices.
ParseArgs ==
    /\ pc = "parse_args"
    /\ IF args.page \in DOMAIN ISO_SIZES_MM
       THEN /\ pc' = "start"
            /\ UNCHANGED <<outcome, uncaught>>
       ELSE /\ pc' = "rejected"
            /\ outcome' = Some(2)
            /\ uncaught' = "SystemExit"
    /\ UNCHANGED <<args, doc, auditor, stats, outdirExists, files, previewBy,
                   entered, failed, log, call, ret>>

NextCli ==
    \/ ParseArgs
    \/ Next
    \/ NextPreview

SpecCli == InitCli /\ [][NextCli]_vars

(***************************************************************************)
(* Properties of the orchestrator (checked under Spec).                    *)
(***************************************************************************)
StageIndex(s) == CHOOSE i \in 1..Len(StageOrder) : StageOrder[i] = s

\* The stages the options ask for once the input exists and loads.
EnabledStages(a) ==
    {"Load", "Stats/Report", "Preview"}
        \cup (IF a.export_flattened_dxf THEN {"Flatten"} ELSE {})
        \cup (IF a.set_insunits # None THEN {"UnitsFix"} ELSE {})
        \cup (IF a.export_dwg THEN {"ExternalFormat"} ELSE {})

\* C1: a failure in any stage after Load (Stats/Report, Preview, Flatten,
\* UnitsFix, ExternalFormat) is caught inside the pipeline: no exception
\* leaves main(), and a finished run has entered every enabled stage.
C1_LaterStageFailuresAreCaught ==
    /\ (failed \ {"Load"} # {} => uncaught = "none" /\ pc # "aborted")
    /\ (pc = "done" /\ args.input_exists =>
            EnabledStages(args) \subseteq Elements(entered))

\* C2: the outcome is 0 exactly when the input file exists and Load
\* succeeded, whatever later stages failed; it is non-zero only when the
\* input is missing or Load failed under both read strategies.
C2_OutcomeZeroIffLoaded ==
    outcome # None =>
        (outcome = Some(0) <=> (args.input_exists /\ doc # None))

\* C3: when the input file does not exist, main() returns a non-zero outcome,
\* creates no output directory and enters no stage.
C3_MissingInputDoesNothing ==
    ~args.input_exists =>
        /\ ~outdirExists
        /\ files = {}
        /\ entered = <<>>
        /\ doc = None /\ stats = None
        /\ pc \in {"start", "done"}
        /\ uncaught = "none"
        /\ (pc = "done" => outcome # None /\ outcome # Some(0))

C3_Witness ==
    /\ ~args.input_exists
    /\ pc = "done"
    /\ outcome = Some(1)

\* C4: when Load fails (recover and direct read both raise), the run ends
\* with a non-zero outcome, no stage other than Load was entered, and no
\* report, preview, flattened, units-fix or foreign-format file was written.
C4_LoadFailureIsFatal ==
    "Load" \in failed =>
        /\ pc = "aborted"
        /\ outcome # None /\ outcome # Some(0)
        /\ entered = <<"Load">>
        /\ files = {}
        /\ previewBy = NoPreviews
        /\ stats = None

C4_Witness ==
    /\ "Load" \in failed
    /\ pc = "aborted"
    /\ args.pdf /\ args.export_flattened_dxf /\ args.export_dwg
    /\ args.set_insunits # None

\* C5: stages are entered only in the order Load, Stats/Report, Preview,
\* Flatten, UnitsFix, ExternalFormat: each at most once, never one that
\* precedes a stage already entered, Load first, and Done only at the end.
C5_StagesInOrder ==
    /\ \A i, j \in 1..Len(entered) :
            i < j => StageIndex(entered[i]) < StageIndex(entered[j])
    /\ (entered # <<>> => entered[1] = "Load")
    /\ (outcome = Some(0) => pc = "done")
    /\ (pc \in {"flatten", "unitsfix", "dwg", "finish"} =>
            {"Load", "Stats/Report", "Preview"} \subseteq Elements(entered))

C5_Witness ==
    /\ pc = "done"
    /\ entered = StageOrder

(***************************************************************************)
(* Properties of compute_extents and compute_stats (checked under          *)
(* SpecStats).                                                             *)
(***************************************************************************)
NoExtentData(d) ==
    /\ d.scan.kind # "data"
    /\ "$EXTMIN" \notin DOMAIN d.header
    /\ "$EXTMAX" \notin DOMAIN d.header

\* C6 as stated: min, max and size are null together; all three are null
\* when neither source has data, and no result has exactly one of min/max.
C6_NullTogether ==
    stats # None =>
        LET e == stats.extents
        IN  /\ (NoExtentData(doc) =>
                    e.extmin = None /\ e.extmax = None /\ e.size = None)
            /\ (e.extmin = None <=> e.extmax = None)
            /\ (e.extmin = None <=> e.size = None)

\* C6 as amended: all three are null when neither source has data; size is
\* null as soon as min or max is; under the geometric source min and max
\* are both set; under the header source min is null exactly when $EXTMIN is
\* absent and max is null exactly when $EXTMAX is absent.
C6_NullWhenNoData ==
    stats # None =>
        LET e == stats.extents
        IN  /\ (NoExtentData(doc) =>
                    e.extmin = None /\ e.extmax = None /\ e.size = None)
            /\ (e.extmin = None \/ e.extmax = None => e.size = None)
            /\ (e.source = "modelspace_bbox" =>
                    e.extmin # None /\ e.extmax # None)
            /\ (e.source = "header_EXTMIN_EXTMAX" =>
                    /\ (e.extmin = None <=> "$EXTMIN" \notin DOMAIN doc.header)
                    /\ (e.extmax = None <=> "$EXTMAX" \notin DOMAIN doc.header))

C6_Witness ==
    /\ stats # None
    /\ NoExtentData(doc)
    /\ stats.extents.extmin = None
    /\ stats.extents.extmax = None
    /\ stats.extents.size = None

\* C7: the header fields are read only when the geometric scan gave no data
\* or raised; min and max both come from the source that source names; with
\* no drawable geometry and both header fields set, source is the header and
\* min/max are the header fields.
C7_SingleSource ==
    stats # None =>
        LET e == stats.extents
            h == doc.header
        IN  /\ (e.header_read <=> doc.scan.kind # "data")
            /\ (e.source = "modelspace_bbox" <=> doc.scan.kind = "data")
            /\ (e.source = "header_EXTMIN_EXTMAX" <=> doc.scan.kind # "data")
            /\ (e.source = "modelspace_bbox" =>
                    e.extmin = doc.scan.extmin /\ e.extmax = doc.scan.extmax)
            /\ (e.source = "header_EXTMIN_EXTMAX" =>
                    /\ e.extmin = (IF "$EXTMIN" \in DOMAIN h
                                   THEN h["$EXTMIN"] ELSE None)
                    /\ e.extmax = (IF "$EXTMAX" \in DOMAIN h
                                   THEN h["$EXTMAX"] ELSE None))

C7_Witness ==
    /\ stats # None
    /\ doc.scan.kind = "nodata"
    /\ {"$EXTMIN", "$EXTMAX"} \subseteq DOMAIN doc.header
    /\ stats.extents.source = "header_EXTMIN_EXTMAX"
    /\ stats.extents.extmin = doc.header["$EXTMIN"]
    /\ stats.extents.extmax = doc.header["$EXTMAX"]
    /\ stats.extents.extmin # stats.extents.extmax

\* C8: when the geometric scan has data, source is geometric and size is
\* max - min in each component; in every result size is set exactly when
\* min and max both are, and then it is max - min.
C8_SizeIsMaxMinusMin ==
    stats # None =>
        LET e == stats.extents
        IN  /\ (doc.scan.kind = "data" =>
                    /\ e.source = "modelspace_bbox"
                    /\ e.size # None
                    /\ \A i \in 1..3 :
                          e.size[i] = doc.scan.extmax[i] - doc.scan.extmin[i])
            /\ (e.size # None <=> (e.extmin # None /\ e.extmax # None))
            /\ (e.size # None =>
                    /\ Len(e.size) = 3
                    /\ \A i \in 1..3 : e.size[i] = e.extmax[i] - e.extmin[i])

C8_Witness ==
    /\ stats # None
    /\ doc.scan.kind = "data"
    /\ stats.extents.source = "modelspace_bbox"
    /\ stats.extents.size = <<CoordStep, 0, 1>>

\* C9: total_entities is the sum of entity_counts' values, and every key of
\* layer_counts is an element of layers, also for an entity on a layer that
\* the layer table does not declare.
C9_StatsInvariant ==
    stats # None =>
        /\ stats.total_entities_modelspace = Total(stats.entity_counts)
        /\ DOMAIN stats.layer_counts \subseteq Elements(stats.layers)

(***************************************************************************)
(* Properties of resolve_page_size (checked under SpecPage).               *)
(***************************************************************************)
\* C10: for a recognized size with declared (w, h), w < h: landscape gives
\* (h, w); portrait gives (w, h); auto with a bbox_size gives (h, w) when the
\* bbox width >= its height and (w, h) otherwise; auto without bbox_size
\* gives (w, h).  So A4 landscape is wider than high and A4 portrait higher
\* than wide, for any bbox_size.
C10_PageOrientation ==
    (ret # None /\ call.page \in DOMAIN ISO_SIZES_MM) =>
        LET w == ISO_SIZES_MM[call.page][1]
            h == ISO_SIZES_MM[call.page][2]
            b == call.bbox_size
            size == <<ret.w, ret.h>>
        IN  /\ w < h
            /\ ret.exc = "none"
            /\ (call.orientation = "landscape" => size = <<h, w>>)
            /\ (call.orientation = "portrait" => size = <<w, h>>)
            /\ (call.orientation = "auto" /\ b # None /\ b[1] >= b[2] =>
                    size = <<h, w>>)
            /\ (call.orientation = "auto" /\ b # None /\ b[1] < b[2] =>
                    size = <<w, h>>)
            /\ (call.orientation = "auto" /\ b = None => size = <<w, h>>)
            /\ (call.page = "A4" /\ call.orientation = "landscape" =>
                    ret.w > ret.h)
            /\ (call.page = "A4" /\ call.orientation = "portrait" =>
                    ret.h > ret.w)

C10_Witness ==
    /\ ret # None
    /\ call.page = "A4"
    /\ call.orientation = "auto"
    /\ call.bbox_size # None
    /\ call.bbox_size[1] = call.bbox_size[2]
    /\ ret = [exc |-> "none", w |-> 297, h |-> 210]

(***************************************************************************)
(* Properties of the preview export (checked under SpecPreview, C11 under  *)
(* SpecCli).                                                               *)
(***************************************************************************)
Returned == pc = "returned" /\ ret # None

WrittenPreviews == {f \in FormatSet : PreviewFile(f) \in files}

C12_NothingRequestedIsNoOp ==
    (Returned /\ Requested(call.opts) = {}) =>
        /\ ret.exc = "none"
        /\ ret.backends = <<>>
        /\ ~ret.resolved
        /\ ret.writers = {}
        /\ ret.by = NoPreviews
        /\ ~ret.mkdir
        /\ ~outdirExists
        /\ files = {}

C12_Witness ==
    /\ Returned
    /\ Requested(call.opts) = {}
    /\ call.opts.page = "Z9"
    /\ ~call.penv.import_ok
    /\ ret.exc = "none"
    /\ files = {}

\* C13: within one export call the preview files written were all written
\* by the same backend: never one file by the primary and another by the
\* secondary backend.
C13_OneBackendWrites ==
    Returned =>
        /\ Cardinality(ret.writers) <= 1
        /\ Cardinality({ret.by[f] : f \in FormatSet} \ {"none"}) <= 1

\* C14: with the primary backend unavailable (its import fails) and the
\* secondary available (it imports and renders without raising), a call
\* with a recognized page and at least one format requested ends without
\* error and preview_modelspace.<format> is written exactly for the
\* requested formats, by the secondary backend; the same holds, by the
\* primary backend, when the primary imports and renders without raising.
C14_RequestedFilesWritten ==
    (Returned /\ Requested(call.opts) # {}
        /\ Upper(call.opts.page) \in DOMAIN ISO_SIZES_MM) =>
        /\ (~call.penv.import_ok /\ call.senv.import_ok
                /\ call.senv.fail_at \notin Requested(call.opts) =>
                /\ ret.exc = "none"
                /\ WrittenPreviews = Requested(call.opts)
                /\ \A f \in FormatSet :
                      ret.by[f] = (IF call.opts[f] THEN "matplotlib"
                                   ELSE "none"))
        /\ (call.penv.import_ok
                /\ call.penv.fail_at \notin Requested(call.opts) \cup {"render"} =>
                /\ ret.exc = "none"
                /\ WrittenPreviews = Requested(call.opts)
                /\ \A f \in FormatSet :
                      ret.by[f] = (IF call.opts[f] THEN "pymupdf" ELSE "none"))

C14_Witness ==
    /\ Returned
    /\ ~call.penv.import_ok
    /\ call.senv.import_ok
    /\ Requested(call.opts) = {"pdf", "svg"}
    /\ ret.exc = "none"
    /\ files = {"preview_modelspace.pdf", "preview_modelspace.svg"}
    /\ ret.writers = {"matplotlib"}

\* C20: the secondary backend is tried only when the primary signals
\* unavailability (its import fails): a failure the primary raises once it
\* has started rendering or writing does not start the secondary; and the
\* unavailability reaches the caller only if the secondary fails too.
C20_FallbackOnlyWhenUnavailable ==
    Returned =>
        /\ ("matplotlib" \in Elements(ret.backends) => ~call.penv.import_ok)
        /\ (~call.penv.import_ok /\ Requested(call.opts) # {}
                /\ ret.exc # "none" =>
                \/ ~call.senv.import_ok
                \/ call.senv.fail_at \in Requested(call.opts)
                \/ Upper(call.opts.page) \notin DOMAIN ISO_SIZES_MM)

\* C15: export_units_fix never changes the caller's document: after the
\* call, whether it returned or raised, the document (its unit code
\* included) is what it was before; a file cleaned_units_fix.dxf is written
\* only from a copy, and that copy is the original with $INSUNITS set to
\* the requested code.
C15_OriginalUntouched ==
    pc = "units_returned" =>
        /\ doc = call.doc
        /\ (ret.file =>
                /\ ret.exc = "none"
                /\ ret.fixed # None
                /\ ret.fixed.header["$INSUNITS"] = call.insunits
                /\ ret.fixed =
                     [call.doc EXCEPT
                        !.header = SetHeader(call.doc.header, "$INSUNITS",
                                             call.insunits)])
        /\ (ret.exc # "none" => "cleaned_units_fix.dxf" \notin files)

C15_Witness ==
    /\ pc = "units_returned"
    /\ "$INSUNITS" \in DOMAIN call.doc.header
    /\ call.doc.header["$INSUNITS"] = InchesCode
    /\ call.insunits = 4
    /\ ret.file
    /\ "cleaned_units_fix.dxf" \in files
    /\ doc.header["$INSUNITS"] = InchesCode
    /\ ret.fixed.header["$INSUNITS"] = 4

\* C16: export_dwg returns normally in each of three outcomes: (1) no
\* converter at any candidate path: no process is run, no directory is
\* created, no file is written and a warning is logged; (2) a converter
\* exists (the first existing candidate in list order is the one run) and
\* it exits non-zero: a warning is logged; (3) it exits zero and
\* exported.dwg is absent: a warning different from the other two is logged.
C16_NoFailureReported ==
    pc = "dwg_returned" =>
        /\ (call.existing = {} =>
                /\ ret.exc = "none"
                /\ ret.ran = None
                /\ ~ret.mkdir
                /\ outdirExists = call.outdir
                /\ "exported.dwg" \notin files
                /\ log = <<"warning: converter not found">>)
        /\ (call.existing # {} =>
                /\ ret.ran # None
                /\ ret.ran[1] \in call.existing
                /\ \A c \in call.existing : ret.ran[1] <= c)
        /\ (call.existing # {} /\ call.run = "nonzero" =>
                /\ ret.exc = "none"
                /\ log = <<"warning: converter failed">>)
        /\ (call.existing # {} /\ call.run = "exit0_nofile" =>
                /\ ret.exc = "none"
                /\ "exported.dwg" \notin files
                /\ Len(log) = 1
                /\ log[1] \notin {"warning: converter failed",
                                  "warning: converter not found"}
                /\ log[1] = "warning: output did not appear")

C16_Witness ==
    /\ pc = "dwg_returned"
    /\ call.existing = {2, 3}
    /\ call.run = "nonzero"
    /\ ret.ran = Some(2)
    /\ ret.exc = "none"
    /\ log = <<"warning: converter failed">>

\* C19: load fails exactly when the recover read and the direct read both
\* fail.  Problems reported by the recover read or by the audit pass, and an
\* audit pass that raises, never fail the load and never stop the run: the
\* document is returned, and the only way a run stops right after Load is
\* that both reads failed; otherwise Stats/Report is the stage entered next.
C19_OnlyTotalReadFailureIsFatal ==
    /\ (pc = "readfile" => "warning: recover failed" \in Elements(log))
    /\ ("Load" \in failed <=>
            /\ "warning: recover failed" \in Elements(log)
            /\ doc = None
            /\ pc \notin {"recover", "readfile"})
    /\ ("Load" \in failed => pc = "aborted" /\ uncaught = "DXFError")
    /\ (Elements(log) \cap {"warning: recover found problems",
                            "warning: audit found problems",
                            "warning: audit failed"} # {} =>
            /\ doc # None
            /\ "Load" \notin failed)
    /\ (doc # None /\ pc \notin {"audit", "stats"} =>
            /\ Len(entered) >= 2
            /\ entered[2] = "Stats/Report")
    /\ (pc = "aborted" /\ entered = <<"Load">> => doc = None)

C19_Witness ==
    /\ pc = "done"
    /\ outcome = Some(0)
    /\ "warning: recover failed" \in Elements(log)
    /\ "warning: audit failed" \in Elements(log)
    /\ doc # None
    /\ entered[2] = "Stats/Report"

\* C17: the pipeline run a second time with the same command line, input
\* and environment into the same output directory: when the first run
\* returned 0, the second is not stopped by what the first left behind (no
\* exception leaves main), and once it has repeated the first run's
\* messages and stage results it has returned 0 too and the directory holds
\* the same set of files as after the first run.
C17_SecondRunSame ==
    (call # None /\ call.outcome = Some(0)) =>
        /\ pc # "aborted"
        /\ uncaught = "none"
        /\ outdirExists
        /\ call.files \subseteq files
        /\ (pc = "done" /\ log = call.log /\ failed = call.failed
                /\ previewBy = call.previewBy =>
                /\ outcome = call.outcome
                /\ doc = call.doc
                /\ files = call.files)

C17_Witness ==
    /\ call # None
    /\ call.outcome = Some(0)
    /\ pc = "done"
    /\ log = call.log /\ failed = call.failed /\ previewBy = call.previewBy
    /\ args.export_flattened_dxf /\ args.set_insunits # None
    /\ args.export_dwg /\ args.svg
    /\ Elements(ReportFiles) \cup {"flattened.dxf", "cleaned_units_fix.dxf",
                                   "exported.dwg", "preview_modelspace.svg"}
          \subseteq files
    /\ files = call.files
    /\ outcome = Some(0)

\* C18: after any sequence of runs into one output directory, at the end of
\* the latest run: cleaned_units_fix.dxf is present only if that run had a
\* unit override, preview_modelspace.<format> only if that run requested
\* and rendered the format, exported.dwg only if that run's converter call
\* succeeded.
C18_PresenceFollowsLatestRun ==
    pc = "done" /\ outcome = Some(0) =>
        /\ ("cleaned_units_fix.dxf" \in files => args.set_insunits # None)
        /\ \A f \in FormatSet :
              PreviewFile(f) \in files => args[f] /\ previewBy[f] # "none"
        /\ ("exported.dwg" \in files =>
                /\ args.export_dwg
                /\ "info: DWG exported" \in Elements(log))

\* C21: in every export_previews call that a backend completed, whichever
\* backend it was: with a scale given the render is made with that scale
\* and fit-to-page off, whatever fit_page says; without a scale it is made
\* with fit_page as given.
C21_ScaleOverridesFit ==
    (pc = "rendered" /\ ret.result.exc = "none"
        /\ Requested(call.opts) # {}) =>
        /\ ret.applied # None
        /\ (call.opts.scale # None =>
                /\ ret.applied.scale = call.opts.scale[1]
                /\ ~ret.applied.fit_page)
        /\ (call.opts.scale = None =>
                ret.applied.fit_page = call.opts.fit_page)

\* C22: in load the direct read is attempted only after the recover read
\* raised, the audit pass comes after the reads, and the audit pass runs
\* only on a document the recover read returned: never on a document that
\* came from the direct-read fallback.
C22_AuditOnlyAfterRecover ==
    /\ (pc = "readfile" =>
            /\ "warning: recover failed" \in Elements(log)
            /\ doc = None)
    /\ (pc = "audit" =>
            /\ doc # None
            /\ "warning: recover failed" \notin Elements(log))
    /\ (Elements(log) \cap {"warning: audit found problems",
                            "warning: audit failed"} # {} =>
            "warning: recover failed" \notin Elements(log))

====
